---- MODULE Spec2Model ----
(***************************************************************************)
(* ClawDug: on-chain score ledger and epoch settlement (src/ClawDug.sol).  *)
(* The three contracts DugToken, AgentRegistry and ClawDugGame are modelled *)
(* as one state machine.  Every external call is one atomic transaction:   *)
(* a failed require (or a revert of a nested call) rolls the whole call    *)
(* back.  Token amounts are counted in base units; one whole token         *)
(* (10**18 base units in the source) is scaled to DUG base units so that   *)
(* the amounts stay inside TLC's integers.                                 *)
(***************************************************************************)
EXTENDS Integers, Sequences, FiniteSets, TLC

\* ------------------------------------------------------------------------
\* Program constants
\* ------------------------------------------------------------------------
DUG == 10
MAX_SUPPLY == 100000000 * DUG
PRIZE_POOL_BPS == 7000
BURN_BPS == 1000
TREASURY_BPS == 2000
BPS_DENOM == 10000
REWARD_PER_KILL == 2 * DUG
REWARD_PER_ROUND == 10 * DUG
REWARD_MILESTONE == 50 * DUG
LB_SIZE == 20
FRESHNESS_WINDOW == 300
epochDuration == 86400
CHAIN_ID == 8453
DefaultHumanFee == 10 * DUG
DefaultAgentFee == 5 * DUG

\* ------------------------------------------------------------------------
\* Bounds of the model
\* ------------------------------------------------------------------------
DeployTime == 1000
MaxEpoch == 1
BigKills == 49999998
NumSessions == 2
PrefillBase == 100

\* ------------------------------------------------------------------------
\* Addresses, keys, session ids
\* ------------------------------------------------------------------------
NullAddr == "0x0"
GameAddr == "game"
TreasuryAddr == "treasury"
Players == {"alice", "bob"}
Holders == Players \cup {GameAddr, TreasuryAddr}
ScoreSignerKey == "signerKey"
OtherKey == "otherKey"
Keys == {ScoreSignerKey, OtherKey}
GarbageAddr == "garbage"
\* session id 0 is bytes32(0), a value a caller may legitimately pass
Sessions == 0 .. (NumSessions - 1)

VARIABLES
    now,                \* block.timestamp
    scoreSigner,        \* ClawDugGame.scoreSigner
    usedSessions,       \* ClawDugGame.usedSessions, as the set of keys mapped to true
    humanLeaderboard,   \* ScoreEntry[LB_SIZE], indices 0 .. LB_SIZE-1
    agentLeaderboard,
    humanLBCount,
    agentLBCount,
    epochs,             \* mapping id -> Epoch, on 1 .. currentEpoch
    currentEpoch,
    treasuryBalance,
    humanEntryFee,
    agentEntryFee,
    totalSupply,        \* DugToken total supply
    balances,           \* DugToken balances
    allowances,         \* DugToken allowance[player][game]
    profiles,           \* AgentRegistry.profiles
    accepted,           \* history: the sessionIds of the successful submitScore calls, in order
    log,                \* history: epoch, category, score and caller of those calls, in order
    api,                \* the agent API server: its mode, its sessions, the payloads it returned
    last                \* the last external call: its arguments and outcome

progVars == <<now, scoreSigner, usedSessions, humanLeaderboard, agentLeaderboard,
              humanLBCount, agentLBCount, epochs, currentEpoch, treasuryBalance,
              humanEntryFee, agentEntryFee, totalSupply, balances, allowances,
              profiles>>
vars == <<now, scoreSigner, usedSessions, humanLeaderboard, agentLeaderboard,
          humanLBCount, agentLBCount, epochs, currentEpoch, treasuryBalance,
          humanEntryFee, agentEntryFee, totalSupply, balances, allowances,
          profiles, accepted, log, api, last>>

\* The storage of the three contracts as one record
State ==
    [now |-> now, scoreSigner |-> scoreSigner, usedSessions |-> usedSessions,
     humanLeaderboard |-> humanLeaderboard, agentLeaderboard |-> agentLeaderboard,
     humanLBCount |-> humanLBCount, agentLBCount |-> agentLBCount,
     epochs |-> epochs, currentEpoch |-> currentEpoch,
     treasuryBalance |-> treasuryBalance,
     humanEntryFee |-> humanEntryFee, agentEntryFee |-> agentEntryFee,
     totalSupply |-> totalSupply, balances |-> balances,
     allowances |-> allowances, profiles |-> profiles]

\* ------------------------------------------------------------------------
\* Records
\* ------------------------------------------------------------------------
ZeroEntry ==
    [player |-> NullAddr, score |-> 0, round |-> 0, kills |-> 0,
     isAgent |-> FALSE, timestamp |-> 0, sessionId |-> 0]

EmptyBoard == [i \in 0 .. (LB_SIZE - 1) |-> ZeroEntry]

ZeroProfile ==
    [registered |-> FALSE, isAgent |-> FALSE, gamesPlayed |-> 0,
     totalScore |-> 0, bestScore |-> 0]

NewEpochMut(id, t) ==
    [id |-> id, startTime |-> t, endTime |-> t,
     prizePool |-> 0, burnAmount |-> 0, treasuryAmount |-> 0,
     settled |-> FALSE, humanWinner |-> NullAddr, agentWinner |-> NullAddr,
     humanTopScore |-> 0, agentTopScore |-> 0]

\* the Epoch literal of _startNewEpoch
NewEpoch(id, t) ==
    [id |-> id, startTime |-> t, endTime |-> t + epochDuration,
     prizePool |-> 0, burnAmount |-> 0, treasuryAmount |-> 0,
     settled |-> FALSE, humanWinner |-> NullAddr, agentWinner |-> NullAddr,
     humanTopScore |-> 0, agentTopScore |-> 0]

\* A step of a transaction: either it goes on with storage st, or it reverts
Ok(st) == [err |-> "ok", st |-> st]
Revert(e, st) == [err |-> e, st |-> st]

\* ------------------------------------------------------------------------
\* DugToken
\* ------------------------------------------------------------------------
MintAllowedMut(supply, amount) == supply <= MAX_SUPPLY

\* mint: require(totalSupply() + amount <= MAX_SUPPLY); _mint(to, amount)
MintAllowed(supply, amount) == supply + amount <= MAX_SUPPLY

mint(st, to, amount) ==
    IF ~MintAllowed(st.totalSupply, amount)
    THEN Revert("SupplyExceeded", st)
    ELSE Ok([st EXCEPT !.totalSupply = @ + amount,
                       !.balances = [@ EXCEPT ![to] = @ + amount]])

\* ERC20Burnable.burn(amount), called by the game contract on its own balance
burn(st, amount) ==
    IF st.balances[GameAddr] < amount
    THEN Revert("InsufficientBalance", st)
    ELSE Ok([st EXCEPT !.totalSupply = @ - amount,
                       !.balances = [@ EXCEPT ![GameAddr] = @ - amount]])

\* ERC20.transferFrom(from, game, amount) with the game contract as spender
transferFrom(st, from, amount) ==
    IF st.allowances[from] < amount
    THEN Revert("InsufficientAllowance", st)
    ELSE IF st.balances[from] < amount
    THEN Revert("InsufficientBalance", st)
    ELSE Ok([st EXCEPT !.allowances = [@ EXCEPT ![from] = @ - amount],
                       !.balances = [@ EXCEPT ![from] = @ - amount,
                                              ![GameAddr] = @ + amount]])

\* ------------------------------------------------------------------------
\* AgentRegistry
\* ------------------------------------------------------------------------
recordGame(st, player, score) ==
    [st EXCEPT !.profiles = [@ EXCEPT ![player] =
        [@ EXCEPT !.gamesPlayed = @ + 1,
                  !.totalScore = @ + score,
                  !.bestScore = IF score > @ THEN score ELSE @]]]

\* ------------------------------------------------------------------------
\* ClawDugGame: epochs
\* ------------------------------------------------------------------------
\* _startNewEpoch: currentEpoch++, a fresh record at block.timestamp
_startNewEpoch(st) ==
    [st EXCEPT !.currentEpoch = @ + 1,
               !.epochs = [i \in 1 .. (st.currentEpoch + 1) |->
                              IF i = st.currentEpoch + 1
                              THEN NewEpoch(st.currentEpoch + 1, st.now)
                              ELSE st.epochs[i]]]

\* humanPrize and agentPrize as settleEpoch reports them in EpochSettled
ReportedPrizes(epoch) ==
    LET half == epoch.prizePool \div 2
        hw == epoch.humanWinner
        aw == epoch.agentWinner
    IN  IF epoch.prizePool > 0
        THEN <<IF hw = NullAddr THEN 0 ELSE IF aw = NullAddr THEN epoch.prizePool ELSE half,
               IF aw = NullAddr THEN 0 ELSE IF hw = NullAddr THEN epoch.prizePool ELSE half>>
        ELSE <<0, 0>>

\* the agent winner paid the rest of the pool instead of its half
PrizeMintsMut(epoch) ==
    LET half == epoch.prizePool \div 2
        hw == epoch.humanWinner
        aw == epoch.agentWinner
    IN  IF epoch.prizePool > 0
        THEN (IF hw # NullAddr THEN <<(<<hw, half>>)>> ELSE <<>>)
             \o (IF aw # NullAddr THEN <<(<<aw, epoch.prizePool - half>>)>> ELSE <<>>)
             \o (IF hw = NullAddr /\ aw # NullAddr THEN <<(<<aw, half>>)>> ELSE <<>>)
             \o (IF aw = NullAddr /\ hw # NullAddr THEN <<(<<hw, half>>)>> ELSE <<>>)
        ELSE <<>>

\* The four conditional prize mints of settleEpoch, in the order of the code:
\* each is <<recipient, amount>>
PrizeMints(epoch) ==
    LET half == epoch.prizePool \div 2
        hw == epoch.humanWinner
        aw == epoch.agentWinner
    IN  IF epoch.prizePool > 0
        THEN (IF hw # NullAddr THEN <<(<<hw, half>>)>> ELSE <<>>)
             \o (IF aw # NullAddr THEN <<(<<aw, half>>)>> ELSE <<>>)
             \o (IF hw = NullAddr /\ aw # NullAddr THEN <<(<<aw, half>>)>> ELSE <<>>)
             \o (IF aw = NullAddr /\ hw # NullAddr THEN <<(<<hw, half>>)>> ELSE <<>>)
        ELSE <<>>

\* a run of dugToken.mint calls; the first one that reverts reverts the run
RECURSIVE MintAll(_, _)
MintAll(st, mints) ==
    IF mints = <<>> THEN Ok(st)
    ELSE LET r == mint(st, Head(mints)[1], Head(mints)[2])
         IN  IF r.err # "ok" THEN r ELSE MintAll(r.st, Tail(mints))

\* the burn part without its burn
BurnStepMut(st, epoch) ==
    IF epoch.burnAmount > 0 THEN mint(st, GameAddr, epoch.burnAmount) ELSE Ok(st)

\* the burn taken from the tokens the game contract holds
BurnStepFees(st, epoch) ==
    IF epoch.burnAmount > 0 THEN burn(st, epoch.burnAmount) ELSE Ok(st)

\* the burn part: mint burnAmount to the game contract, then burn it
BurnStep(st, epoch) ==
    IF epoch.burnAmount > 0
    THEN LET r == mint(st, GameAddr, epoch.burnAmount)
         IN  IF r.err # "ok" THEN r ELSE burn(r.st, epoch.burnAmount)
    ELSE Ok(st)

\* the treasury part without its accounting
TreasuryStepMut(st, epoch) ==
    IF epoch.treasuryAmount > 0 THEN mint(st, TreasuryAddr, epoch.treasuryAmount) ELSE Ok(st)

\* the treasury part: mint treasuryAmount to the treasury, add it to treasuryBalance
TreasuryStep(st, epoch) ==
    IF epoch.treasuryAmount > 0
    THEN LET r == mint(st, TreasuryAddr, epoch.treasuryAmount)
         IN  IF r.err # "ok" THEN r
             ELSE Ok([r.st EXCEPT !.treasuryBalance = @ + epoch.treasuryAmount])
    ELSE Ok(st)

EpochEndedMut(t, endTime) == t <= endTime

\* require(block.timestamp >= epoch.endTime)
EpochEnded(t, endTime) == t >= endTime

MarkSettledMut(st) == st

\* epoch.settled = true, on the current epoch
MarkSettled(st) == [st EXCEPT !.epochs[st.currentEpoch].settled = TRUE]

settleEpoch(st) ==
    LET epoch == st.epochs[st.currentEpoch]
    IN  IF ~EpochEnded(st.now, epoch.endTime) THEN Revert("EpochNotEnded", st)
        ELSE IF epoch.settled THEN Revert("AlreadySettled", st)
        ELSE LET s1 == MarkSettled(st)
                 r2 == MintAll(s1, PrizeMints(epoch))
             IN  IF r2.err # "ok" THEN r2
                 ELSE LET r3 == BurnStep(r2.st, epoch)
                      IN  IF r3.err # "ok" THEN r3
                          ELSE LET r4 == TreasuryStep(r3.st, epoch)
                               IN  IF r4.err # "ok" THEN r4
                                   ELSE Ok(_startNewEpoch(r4.st))

\* ------------------------------------------------------------------------
\* ClawDugGame: score submission
\* ------------------------------------------------------------------------
SignatureFreshMut(t, signedAt) == t < signedAt + FRESHNESS_WINDOW

\* require(block.timestamp <= signedAt + 5 minutes)
SignatureFresh(t, signedAt) == t <= signedAt + FRESHNESS_WINDOW

\* keccak256 has no known collisions: the hash stands for the bytes hashed
keccak256(bytes) == <<"keccak256", bytes>>

\* the number of bytes a value of a static type takes in the packed encoding
PackedWidth(type) ==
    CASE type = "address" -> 20
      [] type = "uint256" -> 32
      [] type = "bytes32" -> 32

\* abi.encodePacked: the values one after the other, each in the width of
\* its type and without padding between them
encodePacked(types, values) ==
    [i \in 1 .. Len(types) |-> <<PackedWidth(types[i]), values[i]>>]

EthMessagePrefix == "\\x19Ethereum Signed Message:\\n"

\* MessageHashUtils.toEthSignedMessageHash(bytes32): the prefix, the length
\* "32" and the hash, hashed
toEthSignedMessageHash(hash) == keccak256(<<EthMessagePrefix, 32, hash>>)

MsgHashMut(sender, score, round, kills, sessionId, signedAt, chainid) ==
    keccak256(encodePacked(
        <<"uint256", "uint256", "uint256", "bytes32", "uint256", "uint256">>,
        <<score, round, kills, sessionId, signedAt, chainid>>))

\* keccak256(abi.encodePacked(msg.sender, score, round, kills, sessionId,
\* signedAt, block.chainid))
MsgHash(sender, score, round, kills, sessionId, signedAt, chainid) ==
    keccak256(encodePacked(
        <<"address", "uint256", "uint256", "uint256", "bytes32", "uint256", "uint256">>,
        <<sender, score, round, kills, sessionId, signedAt, chainid>>))

\* the hash of a tuple <<sender, score, round, kills, sessionId, signedAt, chainid>>
Digest(t) == MsgHash(t[1], t[2], t[3], t[4], t[5], t[6], t[7])

\* A signature is [signer, tuple, digest]: the key that signed, the digest it
\* signed, and the tuple of values the digest was made from
Signed(k, tuple, digest) == [signer |-> k, tuple |-> tuple, digest |-> digest]

\* ECDSA recovery: over the digest that was signed it gives the signer, over
\* any other digest an unrelated address
Recover(hash, sig) == IF sig.digest = hash THEN sig.signer ELSE GarbageAddr

\* usedSessions[sessionId]
SessionUsedMut(st, sessionId) == FALSE

SessionUsed(st, sessionId) == sessionId \in st.usedSessions

\* usedSessions[sessionId] = true
MarkSessionUsedMut(st, sessionId) == st

MarkSessionUsed(st, sessionId) ==
    [st EXCEPT !.usedSessions = @ \cup {sessionId}]

EntryFee(st, isAgent) == IF isAgent THEN st.agentEntryFee ELSE st.humanEntryFee

\* the shares computed so that they add up to the fee
_distributeEntryFeeMut(st, fee) ==
    LET toPrize == (fee * PRIZE_POOL_BPS) \div BPS_DENOM
        toBurn == (fee * BURN_BPS) \div BPS_DENOM
        toTreasury == fee - toPrize - toBurn
    IN  [st EXCEPT !.epochs[st.currentEpoch] =
            [@ EXCEPT !.prizePool = @ + toPrize,
                      !.burnAmount = @ + toBurn,
                      !.treasuryAmount = @ + toTreasury]]

_distributeEntryFee(st, fee) ==
    LET toPrize == (fee * PRIZE_POOL_BPS) \div BPS_DENOM
        toBurn == (fee * BURN_BPS) \div BPS_DENOM
        toTreasury == (fee * TREASURY_BPS) \div BPS_DENOM
    IN  [st EXCEPT !.epochs[st.currentEpoch] =
            [@ EXCEPT !.prizePool = @ + toPrize,
                      !.burnAmount = @ + toBurn,
                      !.treasuryAmount = @ + toTreasury]]

\* the fee charged whatever the allowance
ChargeEntryFeeMut(st, caller, fee) ==
    LET r == transferFrom(st, caller, fee)
    IN  IF r.err # "ok" THEN r ELSE Ok(_distributeEntryFee(r.st, fee))

\* step 5 of submitScore: the fee is charged only when the allowance covers it
ChargeEntryFee(st, caller, fee) ==
    IF st.allowances[caller] >= fee
    THEN LET r == transferFrom(st, caller, fee)
         IN  IF r.err # "ok" THEN r ELSE Ok(_distributeEntryFee(r.st, fee))
    ELSE Ok(st)

\* the largest uint256, on the scale of the token amounts of this model
UINT_MAX == 1073741823

\* checked arithmetic: one of the products or sums of the reward exceeds uint256
RewardOverflows(kills, round) ==
    LET bonus == (IF round >= 5 THEN REWARD_MILESTONE ELSE 0)
                 + (IF round >= 10 THEN REWARD_MILESTONE * 2 ELSE 0)
                 + (IF round >= 20 THEN REWARD_MILESTONE * 5 ELSE 0)
    IN  \/ kills > UINT_MAX \div REWARD_PER_KILL
        \/ round > UINT_MAX \div REWARD_PER_ROUND
        \/ kills * REWARD_PER_KILL > UINT_MAX - round * REWARD_PER_ROUND
        \/ kills * REWARD_PER_KILL + round * REWARD_PER_ROUND > UINT_MAX - bonus

\* the milestone bonuses as alternatives: only the highest one met is added
GameplayRewardMut(kills, round) ==
    kills * REWARD_PER_KILL + round * REWARD_PER_ROUND
      + (IF round >= 20 THEN REWARD_MILESTONE * 5
         ELSE IF round >= 10 THEN REWARD_MILESTONE * 2
         ELSE IF round >= 5 THEN REWARD_MILESTONE ELSE 0)

GameplayReward(kills, round) ==
    LET killReward == kills * REWARD_PER_KILL
        roundReward == round * REWARD_PER_ROUND
        t0 == killReward + roundReward
        t1 == IF round >= 5 THEN t0 + REWARD_MILESTONE ELSE t0
        t2 == IF round >= 10 THEN t1 + REWARD_MILESTONE * 2 ELSE t1
        t3 == IF round >= 20 THEN t2 + REWARD_MILESTONE * 5 ELSE t2
    IN  t3

_mintGameplayRewards(st, player, kills, round) ==
    IF RewardOverflows(kills, round) THEN Revert("ArithmeticOverflow", st)
    ELSE LET total == GameplayReward(kills, round)
         IN  IF total > 0 THEN mint(st, player, total) ELSE Ok(st)

\* the loop without its break: the last index with a lower score
RECURSIVE FindInsertNoBreak(_, _, _, _)
FindInsertNoBreak(lb, count, score, i) ==
    IF i >= count THEN LB_SIZE
    ELSE LET rest == FindInsertNoBreak(lb, count, score, i + 1)
         IN  IF rest # LB_SIZE THEN rest
             ELSE IF score > lb[i].score THEN i ELSE LB_SIZE

\* the loop with >= for >
RECURSIVE FindInsertTie(_, _, _, _)
FindInsertTie(lb, count, score, i) ==
    IF i >= count THEN LB_SIZE
    ELSE IF score >= lb[i].score THEN i
    ELSE FindInsertTie(lb, count, score, i + 1)

\* the loop "for i < count: if (score > lb[i].score) { insertAt = i; break; }"
RECURSIVE FindInsert(_, _, _, _)
FindInsert(lb, count, score, i) ==
    IF i >= count THEN LB_SIZE
    ELSE IF score > lb[i].score THEN i
    ELSE FindInsert(lb, count, score, i + 1)

InsertAt(lb, currentCount, score) ==
    LET count == IF currentCount < LB_SIZE THEN currentCount ELSE LB_SIZE
        found == FindInsert(lb, count, score, 0)
    IN  IF found = LB_SIZE /\ count < LB_SIZE THEN count ELSE found

\* the entry written without the shift
ShiftInsertMut(lb, insertAt, entry) == [lb EXCEPT ![insertAt] = entry]

\* the shift loop "for j = LB_SIZE-1 down to insertAt+1: lb[j] = lb[j-1]",
\* then lb[insertAt] = entry
ShiftInsert(lb, insertAt, entry) ==
    [j \in 0 .. (LB_SIZE - 1) |->
        IF j > insertAt THEN lb[j - 1]
        ELSE IF j = insertAt THEN entry
        ELSE lb[j]]

_updateLeaderboard(lb, currentCount, entry) ==
    LET insertAt == InsertAt(lb, currentCount, entry.score)
    IN  IF insertAt < LB_SIZE THEN ShiftInsert(lb, insertAt, entry) ELSE lb

\* every entry written to the human board
UpdateBoardsMut(st, entry) ==
    [st EXCEPT !.humanLeaderboard =
                   _updateLeaderboard(st.humanLeaderboard, st.humanLBCount, entry),
               !.humanLBCount = IF @ < LB_SIZE THEN @ + 1 ELSE @]

\* step 8 of submitScore
UpdateBoards(st, entry) ==
    IF entry.isAgent
    THEN [st EXCEPT !.agentLeaderboard =
                        _updateLeaderboard(st.agentLeaderboard, st.agentLBCount, entry),
                    !.agentLBCount = IF @ < LB_SIZE THEN @ + 1 ELSE @]
    ELSE [st EXCEPT !.humanLeaderboard =
                        _updateLeaderboard(st.humanLeaderboard, st.humanLBCount, entry),
                    !.humanLBCount = IF @ < LB_SIZE THEN @ + 1 ELSE @]

\* step 9 of submitScore
\* the top score written to the first epoch instead of the current one
UpdateTopScoreMut(st, isAgent, score, player) ==
    LET epoch == st.epochs[1]
        e1 == IF isAgent /\ score > epoch.agentTopScore
              THEN [epoch EXCEPT !.agentTopScore = score, !.agentWinner = player]
              ELSE epoch
        e2 == IF ~isAgent /\ score > e1.humanTopScore
              THEN [e1 EXCEPT !.humanTopScore = score, !.humanWinner = player]
              ELSE e1
    IN  [st EXCEPT !.epochs[1] = e2]

\* the comparison with >= : a tie replaces the incumbent
UpdateTopScoreGe(st, isAgent, score, player) ==
    LET epoch == st.epochs[st.currentEpoch]
        e1 == IF isAgent /\ score >= epoch.agentTopScore
              THEN [epoch EXCEPT !.agentTopScore = score, !.agentWinner = player]
              ELSE epoch
        e2 == IF ~isAgent /\ score >= e1.humanTopScore
              THEN [e1 EXCEPT !.humanTopScore = score, !.humanWinner = player]
              ELSE e1
    IN  [st EXCEPT !.epochs[st.currentEpoch] = e2]

UpdateTopScore(st, isAgent, score, player) ==
    LET epoch == st.epochs[st.currentEpoch]
        e1 == IF isAgent /\ score > epoch.agentTopScore
              THEN [epoch EXCEPT !.agentTopScore = score, !.agentWinner = player]
              ELSE epoch
        e2 == IF ~isAgent /\ score > e1.humanTopScore
              THEN [e1 EXCEPT !.humanTopScore = score, !.humanWinner = player]
              ELSE e1
    IN  [st EXCEPT !.epochs[st.currentEpoch] = e2]

\* the signature and its freshness verified before the session is looked up
AdmissionMut(st, caller, score, round, kills, sessionId, signedAt, sig) ==
    IF ~SignatureFresh(st.now, signedAt) THEN "ExpiredSignature"
    ELSE IF Recover(toEthSignedMessageHash(
                        MsgHash(caller, score, round, kills, sessionId, signedAt,
                                CHAIN_ID)),
                    sig) # st.scoreSigner
    THEN "InvalidSignature"
    ELSE IF SessionUsed(st, sessionId) THEN "ReplayedSession"
    ELSE "ok"

\* steps 1 and 2 of submitScore: the three requires, in the order of the code
Admission(st, caller, score, round, kills, sessionId, signedAt, sig) ==
    IF SessionUsed(st, sessionId) THEN "ReplayedSession"
    ELSE IF ~SignatureFresh(st.now, signedAt) THEN "ExpiredSignature"
    ELSE IF Recover(toEthSignedMessageHash(
                        MsgHash(caller, score, round, kills, sessionId, signedAt,
                                CHAIN_ID)),
                    sig) # st.scoreSigner
    THEN "InvalidSignature"
    ELSE "ok"

submitScore(st, caller, score, round, kills, sessionId, signedAt, sig) ==
    IF Admission(st, caller, score, round, kills, sessionId, signedAt, sig) # "ok"
    THEN Revert(Admission(st, caller, score, round, kills, sessionId, signedAt, sig), st)
    ELSE LET s3 == MarkSessionUsed(st, sessionId)
             isAgent == s3.profiles[caller].isAgent
             r5 == ChargeEntryFee(s3, caller, EntryFee(s3, isAgent))
         IN  IF r5.err # "ok" THEN r5
             ELSE LET s6 == recordGame(r5.st, caller, score)
                      r7 == _mintGameplayRewards(s6, caller, kills, round)
                  IN  IF r7.err # "ok" THEN r7
                      ELSE LET entry == [player |-> caller, score |-> score,
                                         round |-> round, kills |-> kills,
                                         isAgent |-> isAgent, timestamp |-> st.now,
                                         sessionId |-> sessionId]
                               s8 == UpdateBoards(r7.st, entry)
                           IN  Ok(UpdateTopScore(s8, isAgent, score, caller))

CommitMut(pre, r) == r.st

\* A transaction either commits the storage it reached or, on a revert,
\* leaves the storage it started from
Commit(pre, r) == IF r.err = "ok" THEN r.st ELSE pre

\* ------------------------------------------------------------------------
\* External calls as actions
\* ------------------------------------------------------------------------
NoSig == Signed(GarbageAddr, <<NullAddr, 0, 0, 0, 0, 0, 0>>, <<>>)

NoCall ==
    [op |-> "deploy", outcome |-> "ok", caller |-> NullAddr, score |-> 0,
     round |-> 0, kills |-> 0, sessionId |-> 0, signedAt |-> 0, sig |-> NoSig,
     ret |-> <<>>]

\* the storage after a call
Apply(post) ==
    /\ now' = post.now
    /\ scoreSigner' = post.scoreSigner
    /\ usedSessions' = post.usedSessions
    /\ humanLeaderboard' = post.humanLeaderboard
    /\ agentLeaderboard' = post.agentLeaderboard
    /\ humanLBCount' = post.humanLBCount
    /\ agentLBCount' = post.agentLBCount
    /\ epochs' = post.epochs
    /\ currentEpoch' = post.currentEpoch
    /\ treasuryBalance' = post.treasuryBalance
    /\ humanEntryFee' = post.humanEntryFee
    /\ agentEntryFee' = post.agentEntryFee
    /\ totalSupply' = post.totalSupply
    /\ balances' = post.balances
    /\ allowances' = post.allowances
    /\ profiles' = post.profiles

\* the storage at the start
Start(st) ==
    /\ now = st.now
    /\ scoreSigner = st.scoreSigner
    /\ usedSessions = st.usedSessions
    /\ humanLeaderboard = st.humanLeaderboard
    /\ agentLeaderboard = st.agentLeaderboard
    /\ humanLBCount = st.humanLBCount
    /\ agentLBCount = st.agentLBCount
    /\ epochs = st.epochs
    /\ currentEpoch = st.currentEpoch
    /\ treasuryBalance = st.treasuryBalance
    /\ humanEntryFee = st.humanEntryFee
    /\ agentEntryFee = st.agentEntryFee
    /\ totalSupply = st.totalSupply
    /\ balances = st.balances
    /\ allowances = st.allowances
    /\ profiles = st.profiles

\* the state after the deployment of src/deploy.sh at time t: the three
\* contracts constructed, the game contract allowed to mint and to record games
Deployed(t) ==
    [now |-> t, scoreSigner |-> ScoreSignerKey, usedSessions |-> {},
     humanLeaderboard |-> EmptyBoard, agentLeaderboard |-> EmptyBoard,
     humanLBCount |-> 0, agentLBCount |-> 0,
     epochs |-> [i \in 1 .. 1 |-> NewEpoch(1, t)], currentEpoch |-> 1,
     treasuryBalance |-> 0,
     humanEntryFee |-> DefaultHumanFee, agentEntryFee |-> DefaultAgentFee,
     totalSupply |-> 0, balances |-> [a \in Holders |-> 0],
     allowances |-> [a \in Players |-> 0],
     profiles |-> [a \in Players |-> ZeroProfile]]

\* a signature by key k for exactly this call on this chain
SigOver(k, caller, score, round, kills, sessionId, signedAt) ==
    Signed(k, <<caller, score, round, kills, sessionId, signedAt, CHAIN_ID>>,
           toEthSignedMessageHash(
               Digest(<<caller, score, round, kills, sessionId, signedAt, CHAIN_ID>>)))

\* the score signer's signatures for a call that differs from this one in
\* exactly one field
AlteredSigs(caller, score, round, kills, sessionId, signedAt) ==
    LET m == <<caller, score, round, kills, sessionId, signedAt, CHAIN_ID>>
    IN  {Signed(ScoreSignerKey, x, toEthSignedMessageHash(Digest(x))) : x \in
            {[m EXCEPT ![1] = CHOOSE p \in Players : p # caller],
             [m EXCEPT ![2] = score + 1],
             [m EXCEPT ![3] = round + 1],
             [m EXCEPT ![4] = kills + 1],
             [m EXCEPT ![5] = (sessionId + 1) % NumSessions],
             [m EXCEPT ![6] = signedAt + 1],
             [m EXCEPT ![7] = 1]}}

\* the entry fee a submission of caller pays in the current state: its
\* category's fee when the allowance covers it, nothing otherwise
FeeDue(caller) ==
    IF allowances[caller] >= EntryFee(State, profiles[caller].isAgent)
    THEN EntryFee(State, profiles[caller].isAgent)
    ELSE 0

SubmitScore(caller, score, round, kills, sessionId, signedAt, sig) ==
    \E r \in {submitScore(State, caller, score, round, kills, sessionId, signedAt, sig)} :
    \E post \in {Commit(State, r)} :
        /\ Apply(post)
        /\ accepted' = IF r.err = "ok" THEN Append(accepted, sessionId) ELSE accepted
        /\ log' = IF r.err = "ok"
                  THEN Append(log, [epoch |-> currentEpoch,
                                    isAgent |-> profiles[caller].isAgent,
                                    score |-> score, caller |-> caller,
                                    fee |-> FeeDue(caller)])
                  ELSE log
        /\ api' = api
        /\ last' = [op |-> "submitScore", outcome |-> r.err, caller |-> caller,
                    score |-> score, round |-> round, kills |-> kills,
                    sessionId |-> sessionId, signedAt |-> signedAt, sig |-> sig,
                    ret |-> <<>>]

SettleEpoch ==
    \E r \in {settleEpoch(State)} :
    \E post \in {Commit(State, r)} :
        /\ (currentEpoch <= MaxEpoch \/ r.err # "ok")
        /\ Apply(post)
        /\ accepted' = accepted
        /\ log' = log
        /\ api' = api
        /\ last' = [NoCall EXCEPT !.op = "settleEpoch", !.outcome = r.err]

\* a later block: block.timestamp moves on to t
Tick(t) ==
    /\ t > now
    /\ now' = t
    /\ UNCHANGED <<scoreSigner, usedSessions, humanLeaderboard, agentLeaderboard,
                   humanLBCount, agentLBCount, epochs, currentEpoch, treasuryBalance,
                   humanEntryFee, agentEntryFee, totalSupply, balances, allowances,
                   profiles>>
    /\ accepted' = accepted
    /\ log' = log
    /\ api' = api
    /\ last' = [NoCall EXCEPT !.op = "tick"]

\* AgentRegistry.register by player p
register(st, p, isAgent) ==
    IF st.profiles[p].registered THEN Revert("AlreadyRegistered", st)
    ELSE Ok([st EXCEPT !.profiles = [@ EXCEPT ![p] =
                [ZeroProfile EXCEPT !.registered = TRUE, !.isAgent = isAgent]]])

Register(p, isAgent) ==
    \E r \in {register(State, p, isAgent)} :
    \E post \in {Commit(State, r)} :
        /\ r.err = "ok"
        /\ Apply(post)
        /\ accepted' = accepted
        /\ log' = log
        /\ api' = api
        /\ last' = [NoCall EXCEPT !.op = "register", !.caller = p]

\* ERC20.approve(game, amount) by player p
Approve(p, amount) ==
    /\ allowances' = [allowances EXCEPT ![p] = amount]
    /\ UNCHANGED <<now, scoreSigner, usedSessions, humanLeaderboard, agentLeaderboard,
                   humanLBCount, agentLBCount, epochs, currentEpoch, treasuryBalance,
                   humanEntryFee, agentEntryFee, totalSupply, balances, profiles>>
    /\ accepted' = accepted
    /\ log' = log
    /\ api' = api
    /\ last' = [NoCall EXCEPT !.op = "approve", !.caller = p]

\* ClawDugGame.setFees by the owner
SetFees(humanFee, agentFee) ==
    /\ humanEntryFee' = humanFee
    /\ agentEntryFee' = agentFee
    /\ UNCHANGED <<now, scoreSigner, usedSessions, humanLeaderboard, agentLeaderboard,
                   humanLBCount, agentLBCount, epochs, currentEpoch, treasuryBalance,
                   totalSupply, balances, allowances, profiles>>
    /\ accepted' = accepted
    /\ log' = log
    /\ api' = api
    /\ last' = [NoCall EXCEPT !.op = "setFees"]

\* the read functions of the leaderboards: a copy of the storage array
getHumanLeaderboard(st) == st.humanLeaderboard

getAgentLeaderboard(st) == st.agentLeaderboard

GetHumanLeaderboard ==
    /\ UNCHANGED progVars
    /\ accepted' = accepted
    /\ log' = log
    /\ api' = api
    /\ last' = [NoCall EXCEPT !.op = "getHumanLeaderboard",
                              !.ret = getHumanLeaderboard(State)]

GetAgentLeaderboard ==
    /\ UNCHANGED progVars
    /\ accepted' = accepted
    /\ log' = log
    /\ api' = api
    /\ last' = [NoCall EXCEPT !.op = "getAgentLeaderboard",
                              !.ret = getAgentLeaderboard(State)]

\* ------------------------------------------------------------------------
\* The agent API server (src/clawdug-agent-api.js)
\* ------------------------------------------------------------------------
\* The server's clock and the chain's clock are taken to agree: Date.now()
\* in seconds is now.  The server signs with SCORE_SIGNER_PK, the key whose
\* address the deployment configures as scoreSigner.
ApiSignerKey == ScoreSignerKey
StaleAfter == 7200
MaxPayloads == 2

NoSession ==
    [active |-> FALSE, sessionId |-> 0, agentAddress |-> NullAddr, isAgent |-> FALSE,
     lastAction |-> 0, score |-> 0, kills |-> 0, round |-> 0]

\* new GameSession(agentAddress, agentId, isAgent), with the sessionId that
\* crypto.randomBytes(32) gave
GameSession(sessionId, agentAddress, isAgent, t) ==
    [active |-> TRUE, sessionId |-> sessionId, agentAddress |-> agentAddress,
     isAgent |-> isAgent, lastAction |-> t, score |-> 0, kills |-> 0, round |-> 1]

\* the server before any request, in chain mode or in mock mode
ApiStarted(chainReady) ==
    [chainReady |-> chainReady,
     signerRegistered |-> FALSE,    \* AgentRegistry.profiles[server address].registeredAt # 0
     activeSessions |-> [id \in Sessions |-> NoSession],
     payloads |-> {}]

\* the server not running
NoApi == ApiStarted(FALSE)

\* ethers.solidityPackedKeccak256(types, values): the hash as a hex string
solidityPackedKeccak256(types, values) == <<"hex", keccak256(encodePacked(types, values))>>

\* the message signed as the hex string itself
getBytesMut(hex) == hex

\* ethers.getBytes(hex string): the bytes the string spells
getBytes(hex) == hex[2]

\* the length in bytes of a message: 32 for a hash, 66 for its hex string
MessageLength(message) == IF message[1] = "hex" THEN 66 ELSE 32

\* ethers.hashMessage: the prefix, the length of the message and the message, hashed
hashMessage(message) == keccak256(<<EthMessagePrefix, MessageLength(message), message>>)

\* the fields in the order of the contract's parameters: kills before round
SignedValuesMut(session, signedAt) ==
    <<session.agentAddress, session.score, session.kills, session.round,
      session.sessionId, signedAt, CHAIN_ID>>

\* the values GameSession.signScore packs
SignedValues(session, signedAt) ==
    <<session.agentAddress, session.score, session.round, session.kills,
      session.sessionId, signedAt, CHAIN_ID>>

\* GameSession.signScore at server time signedAt
signScore(session, signedAt, chainReady) ==
    IF ~chainReady
    THEN [sessionId |-> session.sessionId, score |-> session.score,
          round |-> session.round, kills |-> session.kills, signedAt |-> signedAt,
          signature |-> NoSig, mock |-> TRUE]
    ELSE LET values == SignedValues(session, signedAt)
             msgHash == solidityPackedKeccak256(
                 <<"address", "uint256", "uint256", "uint256", "bytes32", "uint256",
                   "uint256">>, values)
             signature == Signed(ApiSignerKey,
                                 <<session.agentAddress, session.score, session.round,
                                   session.kills, session.sessionId, signedAt, CHAIN_ID>>,
                                 hashMessage(getBytes(msgHash)))
         IN  [sessionId |-> session.sessionId, score |-> session.score,
              round |-> session.round, kills |-> session.kills, signedAt |-> signedAt,
              signature |-> signature, mock |-> FALSE]

ApiCall(op, outcome, sessionId, ret) ==
    [NoCall EXCEPT !.op = op, !.outcome = outcome, !.sessionId = sessionId, !.ret = ret]

\* POST /agent/register: in chain mode the server registers with the registry
\* from its own address, which the registry accepts once; then the session
\* is created under a random sessionId
ApiRegister(wallet, isAgent, sessionId) ==
    /\ UNCHANGED progVars
    /\ accepted' = accepted
    /\ log' = log
    /\ IF api.chainReady /\ api.signerRegistered
       THEN /\ api' = api
            /\ last' = ApiCall("POST /agent/register", "500", 0, <<>>)
       ELSE /\ api' = [api EXCEPT
                          !.signerRegistered = api.chainReady,
                          !.activeSessions[sessionId] =
                              GameSession(sessionId, wallet, isAgent, now)]
            /\ last' = ApiCall("POST /agent/register", "200", sessionId, <<>>)

\* POST /agent/update-score.  The scores reported here are below 10000, which
\* the anti-cheat check lets through whatever the elapsed time
ApiUpdateScore(sessionId, score, kills, round) ==
    /\ UNCHANGED progVars
    /\ accepted' = accepted
    /\ log' = log
    /\ IF ~api.activeSessions[sessionId].active
       THEN /\ api' = api
            /\ last' = ApiCall("POST /agent/update-score", "404", sessionId, <<>>)
       ELSE /\ api' = [api EXCEPT
                          !.activeSessions[sessionId].score = IF score > @ THEN score ELSE @,
                          !.activeSessions[sessionId].kills = IF kills > @ THEN kills ELSE @,
                          !.activeSessions[sessionId].round = IF round > @ THEN round ELSE @]
            /\ last' = ApiCall("POST /agent/update-score", "200", sessionId, <<>>)

\* POST /agent/submit-score: the payload goes to the client
ApiSubmitScore(sessionId) ==
    /\ UNCHANGED progVars
    /\ accepted' = accepted
    /\ log' = log
    /\ IF ~api.activeSessions[sessionId].active
       THEN /\ api' = api
            /\ last' = ApiCall("POST /agent/submit-score", "404", sessionId, <<>>)
       ELSE IF api.activeSessions[sessionId].score = 0
       THEN /\ api' = api
            /\ last' = ApiCall("POST /agent/submit-score", "400", sessionId, <<>>)
       ELSE \E signed \in {signScore(api.activeSessions[sessionId], now, api.chainReady)} :
            /\ (signed \in api.payloads \/ Cardinality(api.payloads) < MaxPayloads)
            /\ api' = [api EXCEPT !.payloads = @ \cup {signed}]
            /\ last' = ApiCall("POST /agent/submit-score", "200", sessionId, signed)

\* the cleanup timer: a session idle for more than two hours is deleted
ApiCleanup(sessionId) ==
    /\ api.activeSessions[sessionId].active
    /\ api.activeSessions[sessionId].lastAction < now - StaleAfter
    /\ UNCHANGED progVars
    /\ accepted' = accepted
    /\ log' = log
    /\ api' = [api EXCEPT !.activeSessions[sessionId] = NoSession]
    /\ last' = ApiCall("cleanup", "ok", sessionId, <<>>)

\* a client submits a payload it received, unmodified, from address caller
SubmitPayload(caller, payload) ==
    SubmitScore(caller, payload.score, payload.round, payload.kills, payload.sessionId,
                payload.signedAt, payload.signature)

\* ------------------------------------------------------------------------
\* Spec: the admission checks of submitScore (replay, freshness, signature)
\* ------------------------------------------------------------------------
\* how long before the call the payload was signed
Ages == {0, FRESHNESS_WINDOW + 1}
TickTargets == {DeployTime + epochDuration}

Init ==
    /\ Start(Deployed(DeployTime))
    /\ accepted = <<>>
    /\ log = <<>>
    /\ api = NoApi
    /\ last = NoCall

Next ==
    \/ \E caller \in Players, sessionId \in Sessions, age \in Ages, k \in Keys :
          SubmitScore(caller, 5, 0, 0, sessionId, now - age,
                      SigOver(k, caller, 5, 0, 0, sessionId, now - age))
    \/ \E caller \in Players, sessionId \in Sessions :
          \E sig \in AlteredSigs(caller, 5, 0, 0, sessionId, now) :
             SubmitScore(caller, 5, 0, 0, sessionId, now, sig)
    \/ \E t \in TickTargets : Tick(t)

Spec == Init /\ [][Next]_vars

\* ------------------------------------------------------------------------
\* SpecFresh: correctly signed submissions around the freshness window
\* ------------------------------------------------------------------------
WindowAges == {FRESHNESS_WINDOW - 1, FRESHNESS_WINDOW, FRESHNESS_WINDOW + 1}
KillChoices == {2, BigKills}

NextFresh ==
    \/ \E caller \in Players, kills \in {0, BigKills}, sessionId \in Sessions,
          age \in WindowAges :
          SubmitScore(caller, 5, 0, kills, sessionId, now - age,
                      SigOver(ScoreSignerKey, caller, 5, 0, kills, sessionId, now - age))
    \/ \E t \in TickTargets : Tick(t)

SpecFresh == Init /\ [][NextFresh]_vars

\* ------------------------------------------------------------------------
\* SpecEcon: entry fees, rewards, the supply cap and settlement
\* ------------------------------------------------------------------------
AllowanceChoice == 1000
FeePayers == {"alice"}
SmallFee == 5

NextEcon ==
    \/ \E caller \in Players, kills \in KillChoices, sessionId \in Sessions :
          SubmitScore(caller, 5, 0, kills, sessionId, now,
                      SigOver(ScoreSignerKey, caller, 5, 0, kills, sessionId, now))
    \/ SettleEpoch
    \/ \E t \in TickTargets : Tick(t)
    \/ \E p \in FeePayers : Approve(p, AllowanceChoice)
    \/ SetFees(SmallFee, SmallFee)

SpecEcon == Init /\ [][NextEcon]_vars

\* ------------------------------------------------------------------------
\* SpecSettle: the epoch lifecycle, with both categories of player
\* ------------------------------------------------------------------------
NearCapKills == 49999992
SettleKills == {5, NearCapKills}

NextSettle ==
    \/ \E caller \in Players, sessionId \in Sessions :
       \E kills \in (IF caller \in FeePayers THEN SettleKills ELSE {0}) :
          SubmitScore(caller, 5, 0, kills, sessionId, now,
                      SigOver(ScoreSignerKey, caller, 5, 0, kills, sessionId, now))
    \/ SettleEpoch
    \/ \E t \in TickTargets : Tick(t)
    \/ \E p \in FeePayers : Approve(p, AllowanceChoice)
    \/ Register("bob", TRUE)

SpecSettle == Init /\ [][NextSettle]_vars

\* ------------------------------------------------------------------------
\* SpecPay: payouts, with a fee payer who holds tokens
\* ------------------------------------------------------------------------

\* alice has played once with score 0 and kills 5, and approved the game
Funded ==
    LET d == Deployed(DeployTime)
        s1 == Commit(d, submitScore(d, "alice", 0, 0, 5, PrefillBase, d.now,
                                    SigOver(ScoreSignerKey, "alice", 0, 0, 5,
                                            PrefillBase, d.now)))
    IN  [s1 EXCEPT !.allowances["alice"] = AllowanceChoice]

InitPay ==
    /\ Start(Funded)
    /\ accepted = <<PrefillBase>>
    /\ log = <<[epoch |-> 1, isAgent |-> FALSE, score |-> 0, caller |-> "alice",
                fee |-> 0]>>
    /\ api = NoApi
    /\ last = NoCall

NextPay ==
    \/ \E caller \in Players, sessionId \in Sessions :
          SubmitScore(caller, 5, 0, 0, sessionId, now,
                      SigOver(ScoreSignerKey, caller, 5, 0, 0, sessionId, now))
    \/ SettleEpoch
    \/ \E t \in TickTargets : Tick(t)
    \/ Register("alice", TRUE)

SpecPay == InitPay /\ [][NextPay]_vars

\* ------------------------------------------------------------------------
\* SpecTop: the epoch top scores, with scores that tie, rise, fall and are 0
\* ------------------------------------------------------------------------
\* the deployment, with bob registered as an agent or not registered
DeployedTop(asAgent) ==
    IF asAgent THEN Commit(Deployed(DeployTime), register(Deployed(DeployTime), "bob", TRUE))
    ELSE Deployed(DeployTime)

InitTop ==
    \E asAgent \in BOOLEAN :
        /\ Start(DeployedTop(asAgent))
        /\ accepted = <<>>
        /\ log = <<>>
        /\ api = NoApi
        /\ last = NoCall

\* alice scores 0 or 5, bob 5 or 6
TopScoresOf(caller) == IF caller = "alice" THEN {0, 5} ELSE {5, 6}

NextTop ==
    \/ \E caller \in Players, sessionId \in Sessions :
       \E score \in TopScoresOf(caller) :
          SubmitScore(caller, score, 0, 0, sessionId, now,
                      SigOver(ScoreSignerKey, caller, score, 0, 0, sessionId, now))
    \/ SettleEpoch
    \/ \E t \in TickTargets : Tick(t)

SpecTop == InitTop /\ [][NextTop]_vars

\* ------------------------------------------------------------------------
\* SpecReward: the gameplay reward over kills and rounds
\* ------------------------------------------------------------------------
OverflowKills == (UINT_MAX \div REWARD_PER_KILL) + 1
\* <<kills, round>>: the rounds on both sides of each threshold, no reward
\* at all, and a kill count whose reward exceeds uint256
RewardInputs ==
    {<<0, 0>>, <<3, 4>>, <<0, 5>>, <<3, 9>>, <<0, 10>>, <<3, 19>>, <<3, 20>>,
     <<OverflowKills, 0>>}

NextReward ==
    \/ \E caller \in FeePayers, input \in RewardInputs, sessionId \in Sessions :
          SubmitScore(caller, 5, input[2], input[1], sessionId, now,
                      SigOver(ScoreSignerKey, caller, 5, input[2], input[1], sessionId, now))

SpecReward == Init /\ [][NextReward]_vars

\* ------------------------------------------------------------------------
\* SpecSession: submissions rejected at admission or aborted at the reward
\* ------------------------------------------------------------------------
SessionKills == {0, BigKills}

NextSession ==
    \/ \E caller \in FeePayers, kills \in SessionKills, sessionId \in Sessions,
          age \in Ages, k \in Keys :
          SubmitScore(caller, 5, 0, kills, sessionId, now - age,
                      SigOver(k, caller, 5, 0, kills, sessionId, now - age))
    \/ SettleEpoch
    \/ \E t \in TickTargets : Tick(t)

SpecSession == Init /\ [][NextSession]_vars

\* ------------------------------------------------------------------------
\* SpecPool: fee-paying submissions with and without a score
\* ------------------------------------------------------------------------
\* alice holds one human entry fee and has approved the game; no score above
\* 0 has been submitted yet
PoolScores == {0, 5}

NextPool ==
    \/ \E caller \in Players, score \in PoolScores, sessionId \in Sessions :
          SubmitScore(caller, score, 0, 0, sessionId, now,
                      SigOver(ScoreSignerKey, caller, score, 0, 0, sessionId, now))
    \/ SettleEpoch
    \/ \E t \in TickTargets : Tick(t)

SpecPool == InitPay /\ [][NextPool]_vars

\* ------------------------------------------------------------------------
\* SpecApi: the payloads of the API server submitted on chain
\* ------------------------------------------------------------------------
\* <<score, kills, round>> reported by the browser
ReportedScores == {<<5, 2, 1>>, <<6, 3, 2>>}

InitApi ==
    \E chainReady \in BOOLEAN :
        /\ Start(Deployed(DeployTime))
        /\ accepted = <<>>
        /\ log = <<>>
        /\ api = ApiStarted(chainReady)
        /\ last = NoCall

\* the sessionIds that crypto.randomBytes gives
ApiSessions == {0, 1}

NextApi ==
    \/ \E wallet \in FeePayers, sessionId \in ApiSessions : ApiRegister(wallet, TRUE, sessionId)
    \/ \E sessionId \in ApiSessions, rep \in ReportedScores :
          ApiUpdateScore(sessionId, rep[1], rep[2], rep[3])
    \/ \E sessionId \in ApiSessions : ApiSubmitScore(sessionId)
    \/ \E sessionId \in ApiSessions : ApiCleanup(sessionId)
    \/ \E caller \in Players, payload \in api.payloads : SubmitPayload(caller, payload)
    \/ \E t \in TickTargets : Tick(t)

SpecApi == InitApi /\ [][NextApi]_vars

\* ------------------------------------------------------------------------
\* SpecLB: the leaderboards when they are full or about to be
\* ------------------------------------------------------------------------
\* The initial states are reached from the deployment by a run of successful
\* submitScore calls by one human player, with sessionIds PrefillBase + k and
\* scores following one of the patterns below (k is the position in the run).
PrefillCounts == {LB_SIZE - 1, LB_SIZE}
Patterns == {"rising", "pairs"}
PatternScore(pat, k) ==
    CASE pat = "rising" -> 2 * k + 1
      [] pat = "pairs" -> IF k % 2 = 0 THEN 5 ELSE 7
LBScores == {5, 6}

RECURSIVE Prefilled(_, _, _, _)
Prefilled(st, k, n, pat) ==
    IF k = n THEN st
    ELSE LET r == submitScore(st, "alice", PatternScore(pat, k), 0, 0,
                              PrefillBase + k, st.now,
                              SigOver(ScoreSignerKey, "alice", PatternScore(pat, k),
                                      0, 0, PrefillBase + k, st.now))
         IN  IF r.err # "ok" THEN st
             ELSE Prefilled(Commit(st, r), k + 1, n, pat)

\* the deployment, with alice registered as an agent or not registered
DeployedLB(asAgent) ==
    IF asAgent THEN Commit(Deployed(DeployTime), register(Deployed(DeployTime), "alice", TRUE))
    ELSE Deployed(DeployTime)

InitLB ==
    \E n \in PrefillCounts, pat \in Patterns, asAgent \in BOOLEAN :
        /\ Start(Prefilled(DeployedLB(asAgent), 0, n, pat))
        /\ accepted = [k \in 1 .. n |-> PrefillBase + k - 1]
        /\ log = [k \in 1 .. n |-> [epoch |-> 1, isAgent |-> asAgent,
                                     score |-> PatternScore(pat, k - 1),
                                     caller |-> "alice", fee |-> 0]]
        /\ api = NoApi
        /\ last = NoCall

NextLB ==
    \/ \E caller \in Players, score \in LBScores, sessionId \in Sessions :
          SubmitScore(caller, score, 0, 1, sessionId, now,
                      SigOver(ScoreSignerKey, caller, score, 0, 1, sessionId, now))

SpecLB == InitLB /\ [][NextLB]_vars

\* ------------------------------------------------------------------------
\* SpecRead: the leaderboards read between submissions
\* ------------------------------------------------------------------------
NextRead ==
    \/ \E caller \in Players, sessionId \in Sessions :
          SubmitScore(caller, 6, 0, 0, sessionId, now,
                      SigOver(ScoreSignerKey, caller, 6, 0, 0, sessionId, now))
    \/ GetHumanLeaderboard
    \/ GetAgentLeaderboard

SpecRead == InitLB /\ [][NextRead]_vars

\* ------------------------------------------------------------------------
\* Properties of the admission checks
\* ------------------------------------------------------------------------
\* the tuple the last call's arguments make on this chain
CallTuple(c) ==
    <<c.caller, c.score, c.round, c.kills, c.sessionId, c.signedAt, CHAIN_ID>>

\* the signature of a call was issued by the configured signer for exactly that call
IssuedFor(c, signer) == c.sig.signer = signer /\ c.sig.tuple = CallTuple(c)

WasAccepted(sessionId) == \E i \in DOMAIN accepted : accepted[i] = sessionId

OccupiedDistinct(lb, count) ==
    \A i, j \in 0 .. (count - 1) : i # j => lb[i].sessionId # lb[j].sessionId

\* C1: once a submitScore call with a sessionId has succeeded, every later
\* submitScore call with that sessionId, whatever its caller, score, signedAt
\* and signature, fails with ReplayedSession and changes nothing of the
\* storage (leaderboards, counts, epochs, token supply and balances, registry).
C1_ReplayRejected ==
    [][(last'.op = "submitScore" /\ WasAccepted(last'.sessionId))
         => (last'.outcome = "ReplayedSession" /\ UNCHANGED progVars)]_vars

\* a replay by another caller than the first submitter, with a signature the
\* score signer issued for exactly the replayed call
C1_Witness ==
    /\ last.op = "submitScore"
    /\ last.outcome = "ReplayedSession"
    /\ WasAccepted(last.sessionId)
    /\ IssuedFor(last, scoreSigner)
    /\ humanLBCount = 1
    /\ humanLeaderboard[0].sessionId = last.sessionId
    /\ humanLeaderboard[0].player # last.caller

\* C3 as stated: submitScore succeeds only with a signature the score signer
\* issued for exactly the call's tuple, and a signature issued for another
\* tuple (another caller, or an altered score, round, kills, sessionId or
\* signedAt) is rejected with InvalidSignature and no state change.
C3_Original ==
    [][last'.op = "submitScore"
         => /\ last'.outcome = "ok" => IssuedFor(last', scoreSigner)
            /\ ~IssuedFor(last', scoreSigner)
                 => (last'.outcome = "InvalidSignature" /\ UNCHANGED progVars)]_vars

\* C3 as amended: submitScore succeeds only with a signature the score signer
\* issued for exactly the call's tuple; with any other signature the call is
\* rejected with no state change, with InvalidSignature when the sessionId is
\* unused and the call is within the freshness window, and with the error of
\* the earlier check that fails otherwise.
C3_SignatureBinding ==
    [][last'.op = "submitScore"
         => /\ last'.outcome = "ok" => IssuedFor(last', scoreSigner)
            /\ ~IssuedFor(last', scoreSigner)
                 => /\ last'.outcome \in
                         {"ReplayedSession", "ExpiredSignature", "InvalidSignature"}
                    /\ UNCHANGED progVars
                    /\ (last'.sessionId \notin usedSessions
                        /\ now <= last'.signedAt + FRESHNESS_WINDOW)
                         => last'.outcome = "InvalidSignature"]_vars

\* a signature issued to one player is presented by the other one
C3_Witness ==
    /\ last.op = "submitScore"
    /\ last.outcome = "InvalidSignature"
    /\ last.sig.signer = scoreSigner
    /\ last.sig.tuple[1] # last.caller
    /\ last.sig.tuple = [CallTuple(last) EXCEPT ![1] = last.sig.tuple[1]]

\* C7: no leaderboard holds two entries with the same sessionId in its
\* occupied slots, after any sequence of submitScore calls.
C7_NoDuplicateSession ==
    /\ OccupiedDistinct(humanLeaderboard, humanLBCount)
    /\ OccupiedDistinct(agentLeaderboard, agentLBCount)

\* a full board, after a replay of one of its entries was rejected
C7_Witness ==
    /\ humanLBCount = LB_SIZE
    /\ last.op = "submitScore"
    /\ last.outcome = "ReplayedSession"
    /\ \E i \in 0 .. (LB_SIZE - 1) :
          /\ humanLeaderboard[i].sessionId = last.sessionId
          /\ humanLeaderboard[i].player # NullAddr

\* ------------------------------------------------------------------------
\* Properties of freshness, fees and the supply cap
\* ------------------------------------------------------------------------
Admitted(outcome) ==
    outcome \notin {"ReplayedSession", "ExpiredSignature", "InvalidSignature"}

CurrentPools(eps, id) ==
    eps[id].prizePool + eps[id].burnAmount + eps[id].treasuryAmount

C8_FeeConservation ==
    [][(last'.op = "submitScore" /\ last'.outcome = "ok")
         => CurrentPools(epochs', currentEpoch) - CurrentPools(epochs, currentEpoch)
              = balances'[GameAddr] - balances[GameAddr]]_vars

\* C9: total supply never exceeds MAX_SUPPLY; a submitScore whose reward mint
\* would exceed it does not succeed, and a call that fails with
\* SupplyExceeded leaves total supply and every balance unchanged.
C9_SupplyCap ==
    /\ [](totalSupply <= MAX_SUPPLY)
    /\ [][/\ (last'.op = "submitScore" /\ last'.outcome = "ok")
               => totalSupply + GameplayReward(last'.kills, last'.round) <= MAX_SUPPLY
          /\ last'.outcome = "SupplyExceeded"
               => (totalSupply' = totalSupply /\ balances' = balances)]_vars

\* a mint was refused at the cap, after a mint that reached the cap exactly
C9_Witness ==
    /\ last.outcome = "SupplyExceeded"
    /\ totalSupply = MAX_SUPPLY

\* C10: a submitScore call that passes the admission checks and the fee step
\* and whose reward mint would push total supply over MAX_SUPPLY fails with
\* SupplyExceeded, and nothing it did before the mint persists: the storage
\* (used sessions, balances and allowances, epoch pools and top scores,
\* registry stats, leaderboards and counts) is as before the call.
C10_SubmitAtomic ==
    [][last'.op = "submitScore"
         => /\ (Admitted(last'.outcome) /\ last'.outcome # "InsufficientBalance"
                /\ totalSupply + GameplayReward(last'.kills, last'.round) > MAX_SUPPLY)
                 => last'.outcome = "SupplyExceeded"
            /\ last'.outcome = "SupplyExceeded"
                 => (UNCHANGED progVars /\ accepted' = accepted)]_vars

\* the refused call had paid its entry fee before the mint: the caller's
\* allowance and balance cover the fee, and the session is still unused
C10_Witness ==
    /\ last.op = "submitScore"
    /\ last.outcome = "SupplyExceeded"
    /\ last.sessionId \notin usedSessions
    /\ humanEntryFee > 0
    /\ allowances[last.caller] >= humanEntryFee
    /\ balances[last.caller] >= humanEntryFee
    /\ profiles[last.caller].gamesPlayed = 1

\* ------------------------------------------------------------------------
\* Properties of the leaderboards
\* ------------------------------------------------------------------------
Sorted(lb, count) ==
    \A i \in 0 .. (count - 2) : lb[i].score >= lb[i + 1].score

\* the position in accepted of a sessionId (the order of submission)
SubmittedAt(sessionId) == CHOOSE i \in DOMAIN accepted : accepted[i] = sessionId

\* among the occupied slots, equal scores stand in the order of submission
TiesInOrder(lb, count) ==
    \A i, j \in 0 .. (count - 1) :
        (i < j /\ lb[i].score = lb[j].score)
          => SubmittedAt(lb[i].sessionId) < SubmittedAt(lb[j].sessionId)

\* the first index of an occupied slot with a strictly lower score, or count
FirstLower(lb, count, score) ==
    IF \E i \in 0 .. (count - 1) : lb[i].score < score
    THEN CHOOSE i \in 0 .. (count - 1) :
            /\ lb[i].score < score
            /\ \A k \in 0 .. (i - 1) : lb[k].score >= score
    ELSE count

\* the new entry stands at index pos of lb2, the entries of lb before pos keep
\* their index and those from pos on stand one index further down
InsertedAt(lb, lb2, pos, c) ==
    /\ lb2[pos].sessionId = c.sessionId
    /\ lb2[pos].player = c.caller
    /\ lb2[pos].score = c.score
    /\ \A i \in 0 .. (LB_SIZE - 1) :
          /\ i < pos => lb2[i] = lb[i]
          /\ (i >= pos /\ i + 1 < LB_SIZE) => lb2[i + 1] = lb[i]

\* what a successful submission does to its board, stated on positions
TieStableStep(lb, count, lb2, c) ==
    LET pos == FirstLower(lb, count, c.score)
    IN  /\ pos < LB_SIZE => InsertedAt(lb, lb2, pos, c)
        /\ pos = LB_SIZE => lb2 = lb
        /\ \A i \in 0 .. (count - 1) : lb[i].score = c.score => i < pos

\* C4: the occupied slots 0 .. count-1 of each leaderboard are in
\* non-increasing score order, and count never exceeds LB_SIZE (20).
C4_BoardsSorted ==
    /\ Sorted(humanLeaderboard, humanLBCount)
    /\ Sorted(agentLeaderboard, agentLBCount)
    /\ humanLBCount <= LB_SIZE
    /\ agentLBCount <= LB_SIZE

\* a full board holding several distinct scores, just after an insertion
\* between two of them
C4_Witness ==
    /\ humanLBCount = LB_SIZE
    /\ last.op = "submitScore"
    /\ last.outcome = "ok"
    /\ \E i \in 1 .. (LB_SIZE - 2) :
          /\ humanLeaderboard[i].sessionId = last.sessionId
          /\ humanLeaderboard[i].player = last.caller
          /\ humanLeaderboard[i - 1].score > humanLeaderboard[i].score
          /\ humanLeaderboard[i].score > humanLeaderboard[i + 1].score

\* C5: a successful submission puts its entry at the first index whose stored
\* score is strictly lower than the new score (after every entry of equal
\* score), keeps the entries before it at their index and moves the others
\* one index down, so the earlier holders keep their relative order; in every
\* state the entries of equal score stand in the order of their submission.
C5_TieStable ==
    /\ [](/\ TiesInOrder(humanLeaderboard, humanLBCount)
          /\ TiesInOrder(agentLeaderboard, agentLBCount))
    /\ [][(last'.op = "submitScore" /\ last'.outcome = "ok")
            => IF profiles[last'.caller].isAgent
               THEN /\ TieStableStep(agentLeaderboard, agentLBCount,
                                     agentLeaderboard', last')
                    /\ humanLeaderboard' = humanLeaderboard
               ELSE /\ TieStableStep(humanLeaderboard, humanLBCount,
                                     humanLeaderboard', last')
                    /\ agentLeaderboard' = agentLeaderboard]_vars

\* an entry inserted right behind an earlier entry of the same score, with
\* lower scores after it
C5_Witness ==
    /\ last.op = "submitScore"
    /\ last.outcome = "ok"
    /\ \E i \in 1 .. (LB_SIZE - 2) :
          /\ humanLeaderboard[i].sessionId = last.sessionId
          /\ humanLeaderboard[i].player = last.caller
          /\ humanLeaderboard[i - 1].score = humanLeaderboard[i].score
          /\ humanLeaderboard[i - 1].sessionId # last.sessionId
          /\ humanLeaderboard[i + 1].score < humanLeaderboard[i].score
          /\ humanLeaderboard[i + 1].player # NullAddr

\* lb2 is lb with the entry of call c inserted at some index and the entry of
\* the last rank gone: the other entries are all there, in the same order
EvictedLast(lb, lb2, c) ==
    \E pos \in 0 .. (LB_SIZE - 1) :
        /\ lb2[pos].sessionId = c.sessionId
        /\ lb2[pos].player = c.caller
        /\ lb2[pos].score = c.score
        /\ \A i \in 0 .. (LB_SIZE - 2) :
              lb2[IF i < pos THEN i ELSE i + 1] = lb[i]
        /\ \A i \in 0 .. (LB_SIZE - 1) :
              lb2[i].sessionId # lb[LB_SIZE - 1].sessionId

\* C6: when a leaderboard holds LB_SIZE (20) entries and a successful
\* submission has a score strictly greater than the score at the last rank,
\* the board afterwards is the board before with the new entry inserted and
\* exactly one entry gone, the one that stood at the last rank; every other
\* previous entry is still there and they keep their relative order.
C6_Eviction ==
    [][(last'.op = "submitScore" /\ last'.outcome = "ok")
         => /\ (~profiles[last'.caller].isAgent /\ humanLBCount = LB_SIZE
                 /\ last'.score > humanLeaderboard[LB_SIZE - 1].score)
                => /\ EvictedLast(humanLeaderboard, humanLeaderboard', last')
                   /\ humanLBCount' = LB_SIZE
            /\ (profiles[last'.caller].isAgent /\ agentLBCount = LB_SIZE
                 /\ last'.score > agentLeaderboard[LB_SIZE - 1].score)
                => /\ EvictedLast(agentLeaderboard, agentLeaderboard', last')
                   /\ agentLBCount' = LB_SIZE]_vars

\* a full board after an eviction: the new entry stands above the last rank
\* and an accepted earlier submission is no longer on the board
C6_Witness ==
    /\ last.op = "submitScore"
    /\ last.outcome = "ok"
    /\ agentLBCount = LB_SIZE
    /\ humanLBCount = 0
    /\ Len(accepted) = LB_SIZE + 1
    /\ \E i \in 0 .. (LB_SIZE - 2) :
          /\ agentLeaderboard[i].sessionId = last.sessionId
          /\ agentLeaderboard[i].player = last.caller
    /\ \E k \in 1 .. LB_SIZE :
          \A i \in 0 .. (LB_SIZE - 1) : agentLeaderboard[i].sessionId # accepted[k]

\* ------------------------------------------------------------------------
\* Properties of the epoch lifecycle
\* ------------------------------------------------------------------------
Settles == last'.op = "settleEpoch" /\ last'.outcome = "ok"

\* C11: a settleEpoch call in which a mint fails (a winner's prize, the burn
\* mint or the treasury mint) is undone as a whole: the epoch is still
\* unsettled, currentEpoch, every balance, treasuryBalance and total supply
\* are as before the call.
C11_SettleAtomic ==
    [][(last'.op = "settleEpoch" /\ last'.outcome = "SupplyExceeded")
         => /\ UNCHANGED progVars
            /\ ~epochs'[currentEpoch'].settled]_vars

\* a settlement that failed after its first prize mint had fitted under the cap
C11_Witness ==
    /\ last.op = "settleEpoch"
    /\ last.outcome = "SupplyExceeded"
    /\ epochs[currentEpoch].prizePool > 1
    /\ epochs[currentEpoch].humanWinner # NullAddr
    /\ totalSupply + (epochs[currentEpoch].prizePool \div 2) <= MAX_SUPPLY
    /\ ~epochs[currentEpoch].settled

\* C12: in every state the records are those of the ids 1 .. currentEpoch,
\* the one of currentEpoch is the only one with settled = FALSE, and a
\* settled flag is set only once, by a successful settleEpoch on the current
\* epoch, and never cleared.
C12_SingleOpenEpoch ==
    /\ [](/\ currentEpoch >= 1
          /\ DOMAIN epochs = 1 .. currentEpoch
          /\ \A i \in DOMAIN epochs :
                /\ epochs[i].id = i
                /\ epochs[i].settled <=> i < currentEpoch)
    /\ [][\A i \in DOMAIN epochs :
             epochs'[i].settled # epochs[i].settled
               => (Settles /\ i = currentEpoch /\ ~epochs[i].settled)]_vars

\* a settled epoch that held fees, and the open one after it
C12_Witness ==
    /\ currentEpoch = 2
    /\ epochs[1].settled
    /\ epochs[1].prizePool > 0
    /\ ~epochs[2].settled
    /\ last.op = "settleEpoch"
    /\ last.outcome = "ok"

\* C13: a settleEpoch call executed strictly before the current epoch's
\* endTime fails with EpochNotEnded and changes nothing; an epoch becomes
\* settled only in a call executed at a time >= its endTime.
C13_PrematureSettle ==
    /\ [][(last'.op = "settleEpoch" /\ now < epochs[currentEpoch].endTime)
            => (last'.outcome = "EpochNotEnded" /\ UNCHANGED progVars)]_vars
    /\ [][\A i \in DOMAIN epochs :
             (epochs'[i].settled /\ ~epochs[i].settled)
               => (now >= epochs[i].endTime /\ now' = now)]_vars

\* a refused settlement of an epoch that holds fees and a winner
C13_Witness ==
    /\ last.op = "settleEpoch"
    /\ last.outcome = "EpochNotEnded"
    /\ now < epochs[currentEpoch].endTime
    /\ epochs[currentEpoch].prizePool > 0
    /\ epochs[currentEpoch].humanWinner # NullAddr

\* C14: when settleEpoch is called twice in a row, the second call fails with
\* AlreadySettled and leaves the record of the epoch settled by the first
\* call as it was.
C14_DoubleSettle ==
    [][(last.op = "settleEpoch" /\ last.outcome = "ok" /\ last'.op = "settleEpoch")
         => /\ last'.outcome = "AlreadySettled"
            /\ epochs'[currentEpoch - 1] = epochs[currentEpoch - 1]]_vars

\* the winner of an epoch in which exactly one category has a winner
SoleWinner(epoch) ==
    IF epoch.humanWinner = NullAddr THEN epoch.agentWinner ELSE epoch.humanWinner

HasSoleWinner(epoch) ==
    (epoch.humanWinner = NullAddr) # (epoch.agentWinner = NullAddr)

\* C15: a settlement of an epoch with prizePool > 0 and exactly one winner
\* mints to that winner, in total, exactly the epoch's prizePool.
C15_SoleWinnerPayout ==
    [][(Settles /\ epochs[currentEpoch].prizePool > 0
        /\ HasSoleWinner(epochs[currentEpoch]))
         => balances'[SoleWinner(epochs[currentEpoch])]
              - balances[SoleWinner(epochs[currentEpoch])]
              = epochs[currentEpoch].prizePool]_vars

\* ------------------------------------------------------------------------
\* Properties of the entry fee
\* ------------------------------------------------------------------------
\* the call about to be recorded in last passes the three admission checks
PassesAdmission(c) ==
    /\ c.sessionId \notin usedSessions
    /\ now <= c.signedAt + FRESHNESS_WINDOW
    /\ IssuedFor(c, scoreSigner)

FeeOf(caller) == IF profiles[caller].isAgent THEN agentEntryFee ELSE humanEntryFee

PoolsOf(epoch) == <<epoch.prizePool, epoch.burnAmount, epoch.treasuryAmount>>

OnBoard(lb, c) ==
    \E i \in 0 .. (LB_SIZE - 1) :
        lb[i].sessionId = c.sessionId /\ lb[i].player = c.caller /\ lb[i].score = c.score

Max(a, b) == IF a >= b THEN a ELSE b

\* C16: a submitScore call by a submitter whose allowance to the game is
\* below the entry fee of their category moves no token to the game and
\* leaves prizePool, burnAmount and treasuryAmount as they were; when the
\* call passes the admission checks and its reward fits under the cap it
\* succeeds, consumes the session, mints the gameplay reward to the
\* submitter, puts the entry on the category's board and raises the
\* category's epoch top score to the score if that is higher.
C16_FeeSkip ==
    [][(last'.op = "submitScore" /\ allowances[last'.caller] < FeeOf(last'.caller))
         => /\ balances'[GameAddr] = balances[GameAddr]
            /\ allowances' = allowances
            /\ PoolsOf(epochs'[currentEpoch]) = PoolsOf(epochs[currentEpoch])
            /\ (PassesAdmission(last')
                /\ totalSupply + GameplayReward(last'.kills, last'.round) <= MAX_SUPPLY)
                 => /\ last'.outcome = "ok"
                    /\ last'.sessionId \in usedSessions'
                    /\ balances'[last'.caller]
                         = balances[last'.caller]
                             + GameplayReward(last'.kills, last'.round)
                    /\ IF profiles[last'.caller].isAgent
                       THEN /\ OnBoard(agentLeaderboard', last')
                            /\ agentLBCount' = agentLBCount + 1
                            /\ epochs'[currentEpoch].agentTopScore
                                 = Max(epochs[currentEpoch].agentTopScore, last'.score)
                       ELSE /\ OnBoard(humanLeaderboard', last')
                            /\ humanLBCount' = humanLBCount + 1
                            /\ epochs'[currentEpoch].humanTopScore
                                 = Max(epochs[currentEpoch].humanTopScore, last'.score)]_vars

\* a submitter who holds more than the fee but gave no allowance: the call
\* succeeded and no fee was taken
C16_Witness ==
    /\ last.op = "submitScore"
    /\ last.outcome = "ok"
    /\ allowances[last.caller] < FeeOf(last.caller)
    /\ balances[last.caller] >= 2 * FeeOf(last.caller)
    /\ profiles[last.caller].gamesPlayed = 2
    /\ balances[GameAddr] = 0
    /\ epochs[currentEpoch].prizePool = 0
    /\ humanLBCount = 2

\* C17: a submitScore call that passes the admission checks and whose reward
\* fits under the cap succeeds whatever the submitter's balance and allowance.
C17_NeverBlocksOnPayment ==
    [][(last'.op = "submitScore" /\ PassesAdmission(last')
        /\ totalSupply + GameplayReward(last'.kills, last'.round) <= MAX_SUPPLY)
         => last'.outcome = "ok"]_vars

\* C19: a charged fee F adds floor(F * 7000 / 10000) to prizePool,
\* floor(F * 1000 / 10000) to burnAmount and floor(F * 2000 / 10000) to
\* treasuryAmount of the current epoch, each truncated on its own; for F = 5
\* the increments are 3, 0 and 1.
C19_FeeSplit ==
    [][(last'.op = "submitScore" /\ last'.outcome = "ok"
        /\ allowances[last'.caller] >= FeeOf(last'.caller))
         => LET F == FeeOf(last'.caller)
                old == epochs[currentEpoch]
                new == epochs'[currentEpoch]
            IN  /\ balances'[GameAddr] - balances[GameAddr] = F
                /\ new.prizePool - old.prizePool = (F * 7000) \div 10000
                /\ new.burnAmount - old.burnAmount = (F * 1000) \div 10000
                /\ new.treasuryAmount - old.treasuryAmount = (F * 2000) \div 10000
                /\ F = 5 => PoolsOf(new) = <<old.prizePool + 3, old.burnAmount,
                                             old.treasuryAmount + 1>>]_vars

\* a fee of 5 was charged on an epoch with empty pools: they hold 3, 0 and 1
C19_Witness ==
    /\ last.op = "submitScore"
    /\ last.outcome = "ok"
    /\ humanEntryFee = 5
    /\ balances[GameAddr] = 5
    /\ PoolsOf(epochs[currentEpoch]) = <<3, 0, 1>>

\* C20: a submitScore call executed at a time >= the current epoch's endTime
\* leaves that epoch's prizePool, burnAmount and treasuryAmount unchanged.
C20_FeesOnlyWhileOpen ==
    [][(last'.op = "submitScore" /\ now >= epochs[currentEpoch].endTime)
         => PoolsOf(epochs'[currentEpoch]) = PoolsOf(epochs[currentEpoch])]_vars

\* C18: a successful settleEpoch executed at time t makes currentEpoch the
\* previous id + 1 and writes there a record with that id, startTime = t,
\* endTime = t + epochDuration, zero pools, settled = FALSE, null winners and
\* zero top scores; the first epoch has id 1 and starts at construction;
\* currentEpoch changes only by such a step, by + 1.
C18_EpochRotation ==
    /\ [](epochs[1].id = 1 /\ epochs[1].startTime = DeployTime /\ currentEpoch >= 1)
    /\ [][/\ Settles
             => /\ currentEpoch' = currentEpoch + 1
                /\ epochs'[currentEpoch'] =
                     [id |-> currentEpoch + 1, startTime |-> now,
                      endTime |-> now + epochDuration,
                      prizePool |-> 0, burnAmount |-> 0, treasuryAmount |-> 0,
                      settled |-> FALSE,
                      humanWinner |-> NullAddr, agentWinner |-> NullAddr,
                      humanTopScore |-> 0, agentTopScore |-> 0]
          /\ ~Settles => currentEpoch' = currentEpoch]_vars

\* the second epoch, opened by settling a first one that had fees and a winner
C18_Witness ==
    /\ last.op = "settleEpoch"
    /\ last.outcome = "ok"
    /\ currentEpoch = 2
    /\ epochs[2].startTime = now
    /\ epochs[1].prizePool > 0
    /\ epochs[1].humanWinner # NullAddr
    /\ epochs[1].humanTopScore > 0

\* ------------------------------------------------------------------------
\* Properties of settled epochs and of the payout
\* ------------------------------------------------------------------------
\* C21: once an epoch record has settled = TRUE, no step changes any of its
\* fields.
C21_SettledImmutable ==
    [][\A i \in DOMAIN epochs : epochs[i].settled => epochs'[i] = epochs[i]]_vars

\* a submission recorded in epoch 2, after epoch 1 with a winner was settled
C21_Witness ==
    /\ last.op = "submitScore"
    /\ last.outcome = "ok"
    /\ currentEpoch = 2
    /\ epochs[1].settled
    /\ epochs[1].humanTopScore > 0
    /\ epochs[2].humanTopScore > 0
    /\ epochs[2].startTime > epochs[1].startTime

\* what an address gains in a settlement that pays half to each role it holds
RolesOf(epoch, a) ==
    (IF epoch.humanWinner = a THEN 1 ELSE 0) + (IF epoch.agentWinner = a THEN 1 ELSE 0)

C24_BurnNeutral ==
    [][Settles
         => /\ balances'[GameAddr] = balances[GameAddr]
            /\ totalSupply' - totalSupply
                 = (balances'["alice"] - balances["alice"])
                     + (balances'["bob"] - balances["bob"])
                     + epochs[currentEpoch].treasuryAmount
            /\ balances'[TreasuryAddr] - balances[TreasuryAddr]
                 = epochs[currentEpoch].treasuryAmount]_vars

\* a settled epoch that had a burn share, with the fees still in the contract
C24_Witness ==
    /\ last.op = "settleEpoch"
    /\ last.outcome = "ok"
    /\ currentEpoch = 2
    /\ epochs[1].burnAmount > 0
    /\ balances[GameAddr] > 0

RECURSIVE SettledTreasury(_, _)
SettledTreasury(eps, n) ==
    IF n = 0 THEN 0
    ELSE (IF eps[n].settled THEN eps[n].treasuryAmount ELSE 0) + SettledTreasury(eps, n - 1)

\* C25: a successful settlement mints the epoch's treasuryAmount to the
\* treasury address and adds it to treasuryBalance; no other step changes
\* treasuryBalance; in every state treasuryBalance is the sum of
\* treasuryAmount over the settled epochs.
C25_TreasuryAccounting ==
    /\ [](treasuryBalance = SettledTreasury(epochs, currentEpoch))
    /\ [][/\ Settles
             => /\ treasuryBalance' = treasuryBalance + epochs[currentEpoch].treasuryAmount
                /\ balances'[TreasuryAddr]
                     = balances[TreasuryAddr] + epochs[currentEpoch].treasuryAmount
          /\ ~Settles => treasuryBalance' = treasuryBalance]_vars

\* the treasury was paid the share of a settled epoch
C25_Witness ==
    /\ treasuryBalance > 0
    /\ treasuryBalance = epochs[1].treasuryAmount
    /\ balances[TreasuryAddr] = treasuryBalance
    /\ epochs[1].settled

\* ------------------------------------------------------------------------
\* Properties of the epoch top scores
\* ------------------------------------------------------------------------
\* the successful submissions of a category in an epoch, as positions of log
EntriesOf(id, isAgent) ==
    {i \in DOMAIN log : log[i].epoch = id /\ log[i].isAgent = isAgent}

MaxScoreOf(I) ==
    IF I = {} THEN 0
    ELSE CHOOSE m \in {log[i].score : i \in I} : \A i \in I : log[i].score <= m

EarliestWith(I, m) ==
    log[CHOOSE i \in I : log[i].score = m /\ \A j \in I : log[j].score = m => i <= j].caller

TopOf(epoch, isAgent) == IF isAgent THEN epoch.agentTopScore ELSE epoch.humanTopScore

WinnerOf(epoch, isAgent) == IF isAgent THEN epoch.agentWinner ELSE epoch.humanWinner

\* a successful submission replaces top score and winner of its category only
\* when its score is strictly higher, and leaves the other category alone
TopScoreStep ==
    (last'.op = "submitScore" /\ last'.outcome = "ok")
      => LET isAgent == profiles[last'.caller].isAgent
             old == epochs[currentEpoch]
             new == epochs'[currentEpoch]
         IN  /\ TopOf(new, ~isAgent) = TopOf(old, ~isAgent)
             /\ WinnerOf(new, ~isAgent) = WinnerOf(old, ~isAgent)
             /\ IF last'.score > TopOf(old, isAgent)
                THEN TopOf(new, isAgent) = last'.score
                     /\ WinnerOf(new, isAgent) = last'.caller
                ELSE TopOf(new, isAgent) = TopOf(old, isAgent)
                     /\ WinnerOf(new, isAgent) = WinnerOf(old, isAgent)

Bonus(round) ==
    (IF round >= 5 THEN REWARD_MILESTONE ELSE 0)
      + (IF round >= 10 THEN REWARD_MILESTONE * 2 ELSE 0)
      + (IF round >= 20 THEN REWARD_MILESTONE * 5 ELSE 0)

Reward(kills, round) == kills * REWARD_PER_KILL + round * REWARD_PER_ROUND + Bonus(round)

\* C26: a successful submitScore mints to the submitter exactly
\* kills * REWARD_PER_KILL + round * REWARD_PER_ROUND + bonus(round), the bonus
\* being the sum of the amounts of the thresholds 5, 10 and 20 that round
\* meets; total supply rises by that amount and nothing else is minted (so
\* nothing when it is 0); a call whose reward computation exceeds uint256
\* fails and changes nothing; a call that passes the admission checks, with
\* a reward that fits uint256 and the supply cap and no fee to pay, succeeds.
C26_GameplayReward ==
    [][last'.op = "submitScore"
         => LET r == Reward(last'.kills, last'.round)
                c == last'.caller
            IN  /\ last'.outcome = "ok"
                     => /\ r <= UINT_MAX
                        /\ totalSupply' - totalSupply = r
                        /\ (balances'[c] - balances[c])
                             + (balances'[GameAddr] - balances[GameAddr]) = r
                /\ r > UINT_MAX
                     => (last'.outcome # "ok" /\ UNCHANGED progVars)
                /\ (PassesAdmission(last') /\ r <= UINT_MAX
                    /\ totalSupply + r <= MAX_SUPPLY /\ allowances[c] = 0)
                     => last'.outcome = "ok"]_vars

\* a round that meets the three thresholds, after a call whose reward fell
\* between the second and the third: the balance is the sum of both rewards
C26_Witness ==
    /\ last.op = "submitScore"
    /\ last.outcome = "ok"
    /\ last.round = 20
    /\ last.kills = 3
    /\ Len(log) = 2
    /\ balances[last.caller] = Reward(3, 20) + Reward(0, 10)
    /\ totalSupply = balances[last.caller]

\* ------------------------------------------------------------------------
\* Properties of a submission that does not reach a full board
\* ------------------------------------------------------------------------
Discarded(lb, count, c) == count = LB_SIZE /\ c.score <= lb[LB_SIZE - 1].score

DiscardedFor(c) ==
    IF profiles[c.caller].isAgent THEN Discarded(agentLeaderboard, agentLBCount, c)
    ELSE Discarded(humanLeaderboard, humanLBCount, c)

\* C27: when the board of the submitter's category holds LB_SIZE (20) entries
\* and the submitted score is at most the score at the last rank, a
\* successful submitScore leaves both boards and both counts exactly as they
\* were, while the sessionId is consumed, the gameplay reward is minted to
\* the submitter and the epoch's top score of the category is evaluated
\* (replaced, with the winner, only by a strictly higher score); and such a
\* call does succeed when it passes the admission checks, has no fee to pay
\* and its reward fits the supply cap.
C27_FullBoardDiscard ==
    [][(last'.op = "submitScore" /\ DiscardedFor(last'))
         => LET c == last'
                who == c.caller
                r == Reward(c.kills, c.round)
                e == epochs[currentEpoch]
                e2 == epochs'[currentEpoch']
                top == IF profiles[who].isAgent THEN e.agentTopScore ELSE e.humanTopScore
                top2 == IF profiles[who].isAgent THEN e2.agentTopScore ELSE e2.humanTopScore
                win == IF profiles[who].isAgent THEN e.agentWinner ELSE e.humanWinner
                win2 == IF profiles[who].isAgent THEN e2.agentWinner ELSE e2.humanWinner
            IN  /\ (PassesAdmission(c) /\ allowances[who] = 0
                    /\ totalSupply + r <= MAX_SUPPLY)
                     => c.outcome = "ok"
                /\ c.outcome = "ok"
                     => /\ humanLeaderboard' = humanLeaderboard
                        /\ agentLeaderboard' = agentLeaderboard
                        /\ humanLBCount' = humanLBCount
                        /\ agentLBCount' = agentLBCount
                        /\ c.sessionId \notin usedSessions
                        /\ usedSessions' = usedSessions \cup {c.sessionId}
                        /\ balances'[who] = balances[who] + r
                        /\ totalSupply' = totalSupply + r
                        /\ currentEpoch' = currentEpoch
                        /\ top2 = Max(top, c.score)
                        /\ win2 = (IF c.score > top THEN who ELSE win)]_vars

\* a successful submission whose score equals the score at the last rank of
\* the full board: consumed and rewarded, and not on the board
C27_Witness ==
    /\ last.op = "submitScore"
    /\ last.outcome = "ok"
    /\ ~profiles[last.caller].isAgent
    /\ humanLBCount = LB_SIZE
    /\ last.score = humanLeaderboard[LB_SIZE - 1].score
    /\ last.sessionId \in usedSessions
    /\ balances[last.caller] >= REWARD_PER_KILL
    /\ \A i \in 0 .. (LB_SIZE - 1) : humanLeaderboard[i].sessionId # last.sessionId

\* ------------------------------------------------------------------------
\* Properties of the order of the admission checks
\* ------------------------------------------------------------------------
Expired(c) == now > c.signedAt + FRESHNESS_WINDOW

\* C28 as stated: a submitScore call that reuses a consumed sessionId and
\* whose signature is expired or invalid fails with ExpiredSignature or
\* InvalidSignature, not with ReplayedSession.
C28_Original ==
    [][(last'.op = "submitScore" /\ last'.sessionId \in usedSessions
        /\ (Expired(last') \/ ~IssuedFor(last', scoreSigner)))
         => last'.outcome \in {"ExpiredSignature", "InvalidSignature"}]_vars

\* C28 as amended: submitScore looks the sessionId up first, then verifies
\* the freshness, then the signature, and consumes the session only after
\* the three have passed: the call fails with ReplayedSession whenever the
\* sessionId is consumed, with ExpiredSignature when it is not and the
\* signature is expired, with InvalidSignature when only the signature is
\* wrong; none of these failures changes the state, and a call that succeeds
\* passed the three checks and consumed its sessionId.
C28_CheckOrder ==
    [][last'.op = "submitScore"
         => LET c == last'
                used == c.sessionId \in usedSessions
            IN  /\ used => c.outcome = "ReplayedSession"
                /\ (~used /\ Expired(c)) => c.outcome = "ExpiredSignature"
                /\ (~used /\ ~Expired(c) /\ ~IssuedFor(c, scoreSigner))
                     => c.outcome = "InvalidSignature"
                /\ c.outcome \in {"ReplayedSession", "ExpiredSignature", "InvalidSignature"}
                     => UNCHANGED progVars
                /\ c.outcome = "ok"
                     => /\ ~used /\ ~Expired(c) /\ IssuedFor(c, scoreSigner)
                        /\ c.sessionId \in usedSessions']_vars

\* a consumed sessionId presented again with an expired payload signed by
\* another key than the score signer's: rejected as a replay
C28_Witness ==
    /\ last.op = "submitScore"
    /\ last.outcome = "ReplayedSession"
    /\ last.sessionId \in usedSessions
    /\ Expired(last)
    /\ last.sig.signer # scoreSigner

\* ------------------------------------------------------------------------
\* Properties of the set of consumed sessions
\* ------------------------------------------------------------------------
AcceptedSessions == {accepted[i] : i \in DOMAIN accepted}

\* C29: the set of consumed sessionIds only grows, and only by a submitScore
\* call that succeeds, which adds exactly its sessionId: in every state the
\* set is the set of the sessionIds of the successful calls; a submitScore
\* call that fails, at the admission checks or later (the reward mint),
\* leaves the set as it was, so that a later call with that sessionId that
\* passes the admission checks, with no fee to pay and a reward that fits
\* the supply cap, succeeds.
C29_SessionLifecycle ==
    [][/\ usedSessions \subseteq usedSessions'
       /\ usedSessions' = AcceptedSessions'
       /\ usedSessions' # usedSessions
            => /\ last'.op = "submitScore"
               /\ last'.outcome = "ok"
               /\ usedSessions' = usedSessions \cup {last'.sessionId}
       /\ last'.op = "submitScore"
            => /\ last'.outcome # "ok" => usedSessions' = usedSessions
               /\ last'.outcome = "ok"
                    => (last'.sessionId \notin usedSessions
                        /\ last'.sessionId \in usedSessions')
               /\ (PassesAdmission(last') /\ allowances[last'.caller] = 0
                   /\ totalSupply + Reward(last'.kills, last'.round) <= MAX_SUPPLY)
                    => last'.outcome = "ok"]_vars

\* a correctly signed call aborted at the reward mint, after another call had
\* succeeded: its sessionId is not consumed
C29_Witness ==
    /\ last.op = "submitScore"
    /\ last.outcome = "SupplyExceeded"
    /\ IssuedFor(last, scoreSigner)
    /\ ~Expired(last)
    /\ last.sessionId \notin usedSessions
    /\ usedSessions # {}

\* ------------------------------------------------------------------------
\* Properties of the leaderboard snapshots
\* ------------------------------------------------------------------------
Min(a, b) == IF a <= b THEN a ELSE b

SubmissionsOf(isAgent) == {k \in DOMAIN log : log[k].isAgent = isAgent}

\* slot i of the board holds one of the successful submissions of the category
InsertedEntry(e, isAgent) ==
    \E k \in SubmissionsOf(isAgent) :
        /\ e.sessionId = accepted[k]
        /\ e.player = log[k].caller
        /\ e.score = log[k].score
        /\ e.isAgent = isAgent

SnapshotShape(lb, count, isAgent) ==
    /\ DOMAIN lb = 0 .. (LB_SIZE - 1)
    /\ count = Min(LB_SIZE, Cardinality(SubmissionsOf(isAgent)))
    /\ \A i \in 0 .. (LB_SIZE - 1) :
          IF i < count THEN InsertedEntry(lb[i], isAgent) ELSE lb[i] = ZeroEntry
    /\ \A i, j \in 0 .. (count - 1) : lb[i].sessionId = lb[j].sessionId => i = j

BoardsShape ==
    /\ SnapshotShape(getHumanLeaderboard(State), humanLBCount, FALSE)
    /\ SnapshotShape(getAgentLeaderboard(State), agentLBCount, TRUE)

\* C30: getHumanLeaderboard and getAgentLeaderboard return the 20 slots of
\* the board of their category and change no state; in every state the
\* count of a category is min(20, number of successful submissions of the
\* category), the slots below the count hold distinct successful
\* submissions of the category (isAgent false on the human board, true on
\* the agent board) and every slot from the count on is the all-zero entry.
C30_SnapshotShape ==
    [][/\ BoardsShape
       /\ BoardsShape'
       /\ last'.op = "getHumanLeaderboard"
            => /\ UNCHANGED progVars
               /\ last'.ret = humanLeaderboard
               /\ SnapshotShape(last'.ret, humanLBCount, FALSE)
       /\ last'.op = "getAgentLeaderboard"
            => /\ UNCHANGED progVars
               /\ last'.ret = agentLeaderboard
               /\ SnapshotShape(last'.ret, agentLBCount, TRUE)]_vars

\* the agent board read when it is full after more than 20 submissions of
\* agents, the human board holding one entry
C30_Witness ==
    /\ last.op = "getAgentLeaderboard"
    /\ last.ret = agentLeaderboard
    /\ agentLBCount = LB_SIZE
    /\ Cardinality(SubmissionsOf(TRUE)) = LB_SIZE + 1
    /\ humanLBCount = 1
    /\ humanLeaderboard[1] = ZeroEntry

\* ------------------------------------------------------------------------
\* Properties of the API server's payloads
\* ------------------------------------------------------------------------
\* the call is the payload, unmodified
Carries(c, payload) ==
    /\ c.score = payload.score
    /\ c.round = payload.round
    /\ c.kills = payload.kills
    /\ c.sessionId = payload.sessionId
    /\ c.signedAt = payload.signedAt
    /\ c.sig = payload.signature

\* C31: a payload that signScore returns in chain mode carries a signature
\* from which the contract, hashing (the session's agentAddress, score,
\* round, kills, sessionId, signedAt, chain id 8453) as submitScore does,
\* recovers the API's signer; and a submitScore call that carries such a
\* payload unmodified, from the session's agentAddress, with the API's key
\* configured as scoreSigner, is never rejected with InvalidSignature: it
\* fails at the replay or the freshness check, or passes the signature check.
C31_SignerVerifierAgree ==
    [][/\ (last'.op = "POST /agent/submit-score" /\ last'.outcome = "200"
           /\ ~last'.ret.mock)
            => LET payload == last'.ret
                   session == api.activeSessions[last'.sessionId]
               IN  /\ payload.sessionId = session.sessionId
                   /\ payload.score = session.score
                   /\ payload.round = session.round
                   /\ payload.kills = session.kills
                   /\ Recover(
                        toEthSignedMessageHash(
                          MsgHash(session.agentAddress, payload.score, payload.round,
                                  payload.kills, payload.sessionId, payload.signedAt,
                                  CHAIN_ID)),
                        payload.signature) = ApiSignerKey
       /\ (last'.op = "submitScore" /\ scoreSigner = ApiSignerKey
           /\ \E payload \in api.payloads :
                 /\ ~payload.mock
                 /\ Carries(last', payload)
                 /\ last'.caller = payload.signature.tuple[1])
            => /\ last'.outcome # "InvalidSignature"
               /\ (last'.sessionId \notin usedSessions /\ ~Expired(last'))
                    => last'.sessionId \in usedSessions'
                       \/ last'.outcome = "SupplyExceeded"]_vars

\* a chain-mode payload whose score, round and kills differ from each other,
\* submitted unmodified by the session's agentAddress and accepted on chain
C31_Witness ==
    /\ last.op = "submitScore"
    /\ last.outcome = "ok"
    /\ api.chainReady
    /\ last.score = 6 /\ last.round = 2 /\ last.kills = 3
    /\ \E payload \in api.payloads :
          /\ ~payload.mock
          /\ Carries(last, payload)
          /\ last.caller = api.activeSessions[payload.sessionId].agentAddress

\* ------------------------------------------------------------------------
\* Properties of the prize pool and of the collected fees
\* ------------------------------------------------------------------------
\* C32: in every state, when the current epoch's prizePool is above 0, one
\* of humanWinner and agentWinner is not the null address.
C32_PoolHasWinner ==
    epochs[currentEpoch].prizePool > 0
        => \/ epochs[currentEpoch].humanWinner # NullAddr
           \/ epochs[currentEpoch].agentWinner # NullAddr

RECURSIVE FeesUpTo(_)
FeesUpTo(k) == IF k = 0 THEN 0 ELSE log[k].fee + FeesUpTo(k - 1)

\* the entry fees of all successful submissions
FeesCollected == FeesUpTo(Len(log))

\* C34: in every state the game contract's token balance is the sum of the
\* entry fees of the successful submissions; settleEpoch, whether it
\* succeeds or fails, leaves that balance as it was.
C34_FeesStay ==
    [][/\ balances[GameAddr] = FeesCollected
       /\ balances'[GameAddr] = FeesCollected'
       /\ last'.op = "settleEpoch" => balances'[GameAddr] = balances[GameAddr]]_vars

\* a settlement with a burn and a treasury part, after which the game
\* contract still holds the fee it collected
C34_Witness ==
    /\ last.op = "settleEpoch"
    /\ last.outcome = "ok"
    /\ epochs[1].settled
    /\ epochs[1].burnAmount > 0
    /\ epochs[1].treasuryAmount > 0
    /\ treasuryBalance = epochs[1].treasuryAmount
    /\ balances[GameAddr] = DefaultHumanFee
    /\ FeesCollected = DefaultHumanFee

\* ------------------------------------------------------------------------
\* Properties of the progress of the epochs
\* ------------------------------------------------------------------------
\* C33: a settleEpoch call made when now has reached the current epoch's
\* endTime succeeds.
C33_SettleSucceeds ==
    [][(last'.op = "settleEpoch" /\ now >= epochs[currentEpoch].endTime)
         => last'.outcome = "ok"]_vars

\* ------------------------------------------------------------------------
\* Properties of the payloads of one API session
\* ------------------------------------------------------------------------
\* the call carries, unmodified, a payload the server returned in chain mode,
\* and comes from the address the payload was signed for
OwnPayload(c) ==
    \E payload \in api.payloads :
        /\ ~payload.mock
        /\ Carries(c, payload)
        /\ c.caller = payload.signature.tuple[1]

NoSessionTwice(seq) == \A i, j \in DOMAIN seq : seq[i] = seq[j] => i = j

\* every request on an active session with a score returns a payload signed
\* at that time, with the session's sessionId and its current score, round
\* and kills, whatever was returned before
FreshPayload ==
    (last'.op = "POST /agent/submit-score"
     /\ api.activeSessions[last'.sessionId].active
     /\ api.activeSessions[last'.sessionId].score > 0)
        => /\ last'.outcome = "200"
           /\ last'.ret.sessionId = last'.sessionId
           /\ last'.ret.signedAt = now
           /\ last'.ret.score = api.activeSessions[last'.sessionId].score
           /\ last'.ret.round = api.activeSessions[last'.sessionId].round
           /\ last'.ret.kills = api.activeSessions[last'.sessionId].kills
           /\ last'.ret \in api'.payloads

\* C35 as stated: of the payloads of one session at most one submitScore
\* call succeeds, and every other call carrying one of them fails with
\* ReplayedSession.
C35_Original ==
    [][/\ FreshPayload
       /\ NoSessionTwice(accepted')
       /\ (last'.op = "submitScore" /\ OwnPayload(last') /\ last'.outcome # "ok")
            => last'.outcome = "ReplayedSession"]_vars

\* C35 as amended: of the payloads of one session at most one submitScore
\* call succeeds; every call with that sessionId made after the successful
\* one fails with ReplayedSession and changes nothing; a call made before
\* any success fails with ExpiredSignature when more than 300 seconds have
\* passed since the payload's signedAt, with InvalidSignature when the
\* payload is a mock or the caller is not the session's agentAddress, and
\* changes nothing either.
C35_OneResult ==
    [][/\ FreshPayload
       /\ NoSessionTwice(accepted')
       /\ (last'.op = "submitScore" /\ WasAccepted(last'.sessionId))
            => (last'.outcome = "ReplayedSession" /\ UNCHANGED progVars)
       /\ (last'.op = "submitScore" /\ ~WasAccepted(last'.sessionId))
            => IF Expired(last')
               THEN last'.outcome = "ExpiredSignature" /\ UNCHANGED progVars
               ELSE IF OwnPayload(last')
               THEN last'.outcome = "ok"
               ELSE last'.outcome = "InvalidSignature" /\ UNCHANGED progVars]_vars

\* two payloads of one session with different scores: one was accepted, the
\* call carrying the other one has just failed as a replay
C35_Witness ==
    /\ last.op = "submitScore"
    /\ last.outcome = "ReplayedSession"
    /\ OwnPayload(last)
    /\ ~Expired(last)
    /\ \E k \in DOMAIN accepted :
          /\ accepted[k] = last.sessionId
          /\ log[k].score # last.score
          /\ \E payload \in api.payloads :
                /\ payload.sessionId = last.sessionId
                /\ payload.score = log[k].score

====
